---------------------------- MODULE Spec2Model ----------------------------
(* Side-panel run orchestrator of the YouTube analysis extension          *)
(* (extensionV3/sidepanel.js; extensionV2/sidepanel.js has the same       *)
(* orchestration).  JavaScript is single threaded: one action of this     *)
(* module is one event-loop task together with the microtasks it          *)
(* triggers, i.e. the code that runs from the resumption of an await (or  *)
(* the start of a handler) up to the next await on an external call.      *)
EXTENDS Integers, Sequences, FiniteSets, TLC

(* ------------------------------ bounds -------------------------------- *)
\* number of triggers that may be accepted as runs in one behaviour
MaxRuns == 2
\* number of monitorYouTubeVideoChange invocations suspended on tabs.query
MaxPolls == 2
\* cap on debounce timers that are pending but no longer referenced by
\* watchTimer (the code always clears before re-arming, so it keeps none)
MaxStray == 1

(* ------------------------------ values -------------------------------- *)
Null == 0
RunIds == 1..MaxRuns

\* sentinels for a JSON field that is absent / present but not a number
NoScore == 99
BadScore == 98

\* response bodies the scoring service may return with an OK status
Payloads ==
  { [isNull |-> FALSE, compassion |-> 3,  safety |-> 2,       reporting |-> NoScore],
    [isNull |-> FALSE, compassion |-> -4, safety |-> NoScore, reporting |-> NoScore],
    [isNull |-> FALSE, compassion |-> 0,  safety |-> -1,      reporting |-> BadScore],
    [isNull |-> TRUE,  compassion |-> NoScore, safety |-> NoScore, reporting |-> NoScore] }

NoData == [src |-> Null, body |-> [isNull |-> TRUE, compassion |-> NoScore,
                                   safety |-> NoScore, reporting |-> NoScore]]

\* the addresses the active tab may show; watch: matches
\* /youtube\.com\/watch|youtu\.be\//, vid: first capture of the v= regexes
NoVid == "none"
NoTab == [id |-> "notab", watch |-> FALSE, vid |-> NoVid]
Urls ==
  { [id |-> "watch_a",   watch |-> TRUE,  vid |-> "a"],
    [id |-> "watch_a_t", watch |-> TRUE,  vid |-> "a"],
    [id |-> "watch_b",   watch |-> TRUE,  vid |-> "b"],
    [id |-> "home",      watch |-> FALSE, vid |-> NoVid],
    [id |-> "other",     watch |-> FALSE, vid |-> NoVid] }
NoUrl == [id |-> "null", watch |-> FALSE, vid |-> NoVid]

MsgNoTab    == "Could not find active tab."
MsgTimeout  == "Transcript request timed out. Make sure the video is playing and captions exist."
MsgNoScript == "Failed to get transcript."
MsgScrape   == "Transcript not visible."
MsgNoRecv   == "Could not establish connection. Receiving end does not exist."
MsgBackend  == "Backend error."
MsgDetail   == "detail from service"
MsgNetwork  == "Failed to fetch"
MsgBadJson  == "Unexpected token in JSON"
MsgQuery    == "tabs.query failed"

VARIABLES
  (* orchestrator state, sidepanel.js 5-11 *)
  lastAnalysisData, originalTranscript, isAnalyzing, latestRunId,
  inFlightController,
  (* one record per accepted invocation of safeStartAnalysis *)
  runs, nAccepted,
  (* external calls: unanswered SCRAPE_TRANSCRIPT messages, aborted controllers *)
  msgPending, aborted,
  (* presentation *)
  hasBtn, view, errorEl, analyzeBtn, dom, rendersSinceReset,
  (* timers and watcher, sidepanel.js 329-370 *)
  initTimer, tabUrl, lastUrl, lastVideoId, watchTimer, strayTimers, polls,
  (* the handler or continuation that ran last *)
  ev,
  (* history: the tab's URL has changed since the panel was loaded *)
  navigated,
  (* chrome.sidePanel: the panel is enabled for the tab, sidepanel.js 376-392;
     it is enabled where the panel page has been opened *)
  panelEnabled

orchVars == <<lastAnalysisData, originalTranscript, isAnalyzing, latestRunId,
              inFlightController, runs, nAccepted, msgPending, aborted>>
uiVars == <<view, errorEl, analyzeBtn, dom, rendersSinceReset>>
watchVars == <<tabUrl, navigated, panelEnabled, lastUrl, lastVideoId, watchTimer, strayTimers,
               polls>>
vars == <<orchVars, uiVars, watchVars, hasBtn, initTimer, ev>>

IdleRun == [pc |-> "idle", thisRun |-> 0, reason |-> "", data |-> NoData]

Event(op, run, info, reason) ==
  [op |-> op, run |-> run, info |-> info, reason |-> reason]

(* --------------------------- view helpers ----------------------------- *)
\* showError / hideError
showError(msg) == [shown |-> TRUE, text |-> msg]
hideError == [shown |-> FALSE, text |-> ""]

\* resetResultsDomPlaceholders together with the gauge reset of showInitialView
\* (the result needle is not among the placeholders that are reset)
MarkupDom == [status |-> "", spinner |-> FALSE, label |-> "",
              warning |-> FALSE, needle |-> -1, list |-> <<>>]
InitialDom(d) == [d EXCEPT !.status = "Calculating", !.spinner = TRUE,
                           !.label = "", !.warning = FALSE, !.list = <<>>]

\* the dom after showError: spinner hidden, status cleared
ErrorDom(d) == [d EXCEPT !.spinner = FALSE, !.status = ""]

BtnImporting == [disabled |-> TRUE,  text |-> "Importing Transcript..."]
BtnAnalyzing(b) == [b EXCEPT !.text = "Analyzing..."]
BtnReady     == [disabled |-> FALSE, text |-> "Run Analysis"]
\* the label the markup gives the button before any run
BtnInitial   == [disabled |-> FALSE, text |-> "(markup)"]

(* ------------------------- updateResultsUI ---------------------------- *)
\* the gauge label chosen from rawScore, sidepanel.js 247-252
GaugeLabel(rawScore) ==
  IF rawScore <= -3 THEN "High Contempt"
  ELSE IF rawScore < -1 THEN "Moderate Contempt"
  ELSE IF rawScore <= 1 THEN "Neutral"
  ELSE IF rawScore < 3 THEN "Moderate Respect"
  ELSE "High Respect"

\* Math.round(((rawScore + 5) / 10) * 100) for an integer rawScore
DisplayScore(rawScore) == (rawScore + 5) * 10

\* the gauge block, sidepanel.js 218-262
ApplyGauge(d, data) ==
  IF data.compassion = NoScore THEN d
  ELSE [d EXCEPT !.needle = DisplayScore(data.compassion),
                 !.status = "",
                 !.spinner = FALSE,
                 !.label = GaugeLabel(data.compassion),
                 !.warning = (data.compassion < -2)]

\* one iteration of the forEach over the dimension keys, sidepanel.js 272-313:
\* an absent item is skipped, a score without toFixed throws before the
\* element is appended, otherwise one element is appended to the list
ApplyDimension(r, key, score) ==
  IF r.threw \/ score = NoScore THEN r
  ELSE IF score = BadScore THEN [r EXCEPT !.threw = TRUE]
  ELSE [r EXCEPT !.dom.list = Append(@, [key |-> key, score |-> score])]

\* updateResultsUI(data): the resulting dom and whether the call threw
updateResultsUI(d, data) ==
  IF data.isNull THEN [dom |-> d, threw |-> TRUE]
  ELSE ApplyDimension(
         ApplyDimension([dom |-> ApplyGauge(d, data), threw |-> FALSE],
                        "safety_vs_threat", data.safety),
         "reporting_vs_opinion", data.reporting)

(* ----------------------------- Init ----------------------------------- *)
\* DOMContentLoaded handler up to the registration of the timers:
\* sidepanel.js 5-11, 330-336, 370
Init ==
  /\ lastAnalysisData = NoData
  /\ originalTranscript = Null
  /\ isAnalyzing = FALSE
  /\ latestRunId = 0
  /\ inFlightController = Null
  /\ runs = [i \in RunIds |-> IdleRun]
  /\ nAccepted = 0
  /\ msgPending = {}
  /\ aborted = {}
  /\ hasBtn \in BOOLEAN
  /\ view = "initial-view"
  /\ errorEl = hideError
  /\ analyzeBtn = BtnInitial
  /\ dom = InitialDom(MarkupDom)
  /\ rendersSinceReset = 0
  /\ initTimer = TRUE
  /\ tabUrl \in Urls \cup {NoTab}
  /\ lastUrl = NoUrl
  /\ lastVideoId = NoVid
  /\ watchTimer = "null"
  /\ strayTimers = 0
  /\ polls = 0
  /\ ev = Event("load", Null, "", "")
  /\ navigated = FALSE
  /\ panelEnabled = TRUE

(* ------------------------ safeStartAnalysis --------------------------- *)
\* thisRun !== latestRunId for the run record i
Stale(i) == runs[i].thisRun # latestRunId

\* variant: the finally block restores the button but not the flag
outerFinally_KeepFlag(i) ==
  /\ analyzeBtn' = IF hasBtn THEN BtnReady ELSE analyzeBtn
  /\ isAnalyzing' = isAnalyzing
  /\ runs' = [runs EXCEPT ![i] = [pc |-> "done", thisRun |-> @.thisRun,
                                  reason |-> "", data |-> NoData]]

\* finally of safeStartAnalysis, sidepanel.js 130-139
outerFinally(i) ==
  /\ analyzeBtn' = IF hasBtn THEN BtnReady ELSE analyzeBtn
  /\ isAnalyzing' = IF runs[i].thisRun = latestRunId THEN FALSE ELSE isAnalyzing
  /\ runs' = [runs EXCEPT ![i] = [pc |-> "done", thisRun |-> @.thisRun,
                                  reason |-> "", data |-> NoData]]

\* variant: the catch block shows the error but the flag is not released
Throw_KeepFlag(i, msg, op, info) ==
  /\ errorEl' = showError(msg)
  /\ dom' = ErrorDom(dom)
  /\ outerFinally_KeepFlag(i)
  /\ ev' = Event(op, i, info, "")
  /\ UNCHANGED <<view, rendersSinceReset, originalTranscript, latestRunId,
                 nAccepted, aborted>>

\* an error reaching catch + showError (128-129 or 189-194), then the finally
Throw(i, msg, op, info) ==
  /\ errorEl' = showError(msg)
  /\ dom' = ErrorDom(dom)
  /\ outerFinally(i)
  /\ ev' = Event(op, i, info, "")
  /\ UNCHANGED <<view, rendersSinceReset, originalTranscript, latestRunId,
                 nAccepted, aborted>>

\* a silent return (stale checkpoint or AbortError), then the finally
Drop(i, op, info) ==
  /\ outerFinally(i)
  /\ ev' = Event(op, i, info, "")
  /\ UNCHANGED <<errorEl, dom, view, rendersSinceReset, originalTranscript,
                 latestRunId, nAccepted, aborted>>

\* variant: the presentation reset is placed before the busy check
ignoreTrigger_ResetFirst(reason) ==
  /\ ev' = Event("safeStartAnalysis", Null, "ignored", reason)
  /\ view' = "initial-view"
  /\ errorEl' = hideError
  /\ dom' = InitialDom(dom)
  /\ rendersSinceReset' = 0
  /\ UNCHANGED <<orchVars, analyzeBtn>>

\* variant: the busy branch reports the rejection through the error indicator
ignoreTrigger_ShowsError(reason) ==
  /\ ev' = Event("safeStartAnalysis", Null, "ignored", reason)
  /\ errorEl' = showError("Analysis already running.")
  /\ dom' = ErrorDom(dom)
  /\ UNCHANGED <<orchVars, view, analyzeBtn, rendersSinceReset>>

\* the busy branch of safeStartAnalysis, sidepanel.js 83-86
ignoreTrigger(reason) ==
  /\ ev' = Event("safeStartAnalysis", Null, "ignored", reason)
  /\ UNCHANGED <<orchVars, uiVars>>

\* variant: isAnalyzing is not set on acceptance
acceptRun_NoFlag(reason) ==
  /\ nAccepted < MaxRuns
  /\ aborted' = IF inFlightController # Null
                THEN aborted \cup {inFlightController} ELSE aborted
  /\ inFlightController' = Null
  /\ latestRunId' = latestRunId + 1
  /\ nAccepted' = nAccepted + 1
  /\ runs' = [runs EXCEPT ![nAccepted + 1] =
                [pc |-> "tabQuery", thisRun |-> latestRunId + 1,
                 reason |-> reason, data |-> NoData]]
  /\ view' = "initial-view"
  /\ errorEl' = hideError
  /\ dom' = InitialDom(dom)
  /\ rendersSinceReset' = 0
  /\ analyzeBtn' = IF hasBtn THEN BtnImporting ELSE analyzeBtn
  /\ ev' = Event("safeStartAnalysis", nAccepted + 1, "accepted", reason)
  /\ UNCHANGED <<lastAnalysisData, originalTranscript, msgPending, isAnalyzing>>

\* variant: thisRun is captured before latestRunId is incremented
acceptRun_CaptureFirst(reason) ==
  /\ nAccepted < MaxRuns
  /\ aborted' = IF inFlightController # Null
                THEN aborted \cup {inFlightController} ELSE aborted
  /\ inFlightController' = Null
  /\ isAnalyzing' = TRUE
  /\ latestRunId' = latestRunId + 1
  /\ nAccepted' = nAccepted + 1
  /\ runs' = [runs EXCEPT ![nAccepted + 1] =
                [pc |-> "tabQuery", thisRun |-> latestRunId,
                 reason |-> reason, data |-> NoData]]
  /\ view' = "initial-view"
  /\ errorEl' = hideError
  /\ dom' = InitialDom(dom)
  /\ rendersSinceReset' = 0
  /\ analyzeBtn' = IF hasBtn THEN BtnImporting ELSE analyzeBtn
  /\ ev' = Event("safeStartAnalysis", nAccepted + 1, "accepted", reason)
  /\ UNCHANGED <<lastAnalysisData, originalTranscript, msgPending>>

\* acceptance of a trigger up to the first await, sidepanel.js 88-107
acceptRun(reason) ==
  /\ nAccepted < MaxRuns
  /\ aborted' = IF inFlightController # Null
                THEN aborted \cup {inFlightController} ELSE aborted
  /\ inFlightController' = Null
  /\ isAnalyzing' = TRUE
  /\ latestRunId' = latestRunId + 1
  /\ nAccepted' = nAccepted + 1
  /\ runs' = [runs EXCEPT ![nAccepted + 1] =
                [pc |-> "tabQuery", thisRun |-> latestRunId + 1,
                 reason |-> reason, data |-> NoData]]
  /\ view' = "initial-view"
  /\ errorEl' = hideError
  /\ dom' = InitialDom(dom)
  /\ rendersSinceReset' = 0
  /\ analyzeBtn' = IF hasBtn THEN BtnImporting ELSE analyzeBtn
  /\ ev' = Event("safeStartAnalysis", nAccepted + 1, "accepted", reason)
  /\ UNCHANGED <<lastAnalysisData, originalTranscript, msgPending>>

\* variant: the busy branch logs but does not return
safeStartAnalysis_NoReturn(reason) == acceptRun(reason)

\* variant: a start handler without the busy check and without the run
\* token, as handleImportClick of the first version (extension/sidepanel.js)
safeStartAnalysis_NoGuards(reason) ==
  /\ nAccepted < MaxRuns
  /\ nAccepted' = nAccepted + 1
  /\ runs' = [runs EXCEPT ![nAccepted + 1] =
                [pc |-> "tabQuery", thisRun |-> latestRunId,
                 reason |-> reason, data |-> NoData]]
  /\ view' = "initial-view"
  /\ errorEl' = hideError
  /\ dom' = InitialDom(dom)
  /\ rendersSinceReset' = 0
  /\ analyzeBtn' = IF hasBtn THEN BtnImporting ELSE analyzeBtn
  /\ ev' = Event("safeStartAnalysis", nAccepted + 1, "accepted", reason)
  /\ UNCHANGED <<lastAnalysisData, originalTranscript, msgPending, aborted,
                 inFlightController, isAnalyzing, latestRunId>>

\* safeStartAnalysis(reason) up to its first await, sidepanel.js 81-107
safeStartAnalysis(reason) ==
  IF isAnalyzing THEN ignoreTrigger(reason) ELSE acceptRun(reason)

\* click listener of the analyze button, sidepanel.js 28
ManualClick ==
  /\ hasBtn
  /\ safeStartAnalysis("manual")
  /\ UNCHANGED <<watchVars, hasBtn, initTimer>>

\* setTimeout(() => safeStartAnalysis('auto-init'), 50), sidepanel.js 331
AutoInit ==
  /\ initTimer
  /\ initTimer' = FALSE
  /\ safeStartAnalysis("auto-init")
  /\ UNCHANGED <<watchVars, hasBtn>>

\* resumption after chrome.tabs.query, sidepanel.js 107-114
TabQueryDone(i) ==
  /\ runs[i].pc = "tabQuery"
  /\ \E res \in {"tab", "notab", "reject"} :
       IF res = "tab"
       THEN /\ msgPending' = msgPending \cup {i}
            /\ runs' = [runs EXCEPT ![i].pc = "extract"]
            /\ ev' = Event("tabQuery", i, "sendMessage", "")
            /\ UNCHANGED <<lastAnalysisData, originalTranscript, isAnalyzing,
                           latestRunId, inFlightController, nAccepted, aborted,
                           uiVars>>
       ELSE /\ Throw(i, IF res = "notab" THEN MsgNoTab ELSE MsgQuery,
                     "tabQuery", res)
            /\ UNCHANGED <<lastAnalysisData, inFlightController, msgPending>>
  /\ UNCHANGED <<watchVars, hasBtn, initTimer>>

\* what the SCRAPE_TRANSCRIPT listeners of the content script pass to
\* sendResponse: extension/content.js 25 and 39 (the transcript panel is
\* scraped), 259 and 262 (the transcript is fetched; the catch block answers
\* without an error text); an absent error is the empty string
ScrapeResponse ==
  [success        |-> [success |-> TRUE,  error |-> ""],
   failure        |-> [success |-> FALSE, error |-> MsgScrape],
   failureNoError |-> [success |-> FALSE, error |-> ""]]

\* settlement of withTimeout(sendMessage, 15000), sidepanel.js 110-129 and
\* the synchronous head of sendTranscriptToBackend, 142-158
ExtractSettle(i) ==
  /\ runs[i].pc = "extract"
  /\ \E res \in DOMAIN ScrapeResponse \cup {"undefined", "reject", "timeout"} :
       /\ msgPending' = IF res = "timeout" THEN msgPending ELSE msgPending \ {i}
       /\ IF res \in {"reject", "timeout"}
          THEN /\ Throw(i, IF res = "timeout" THEN MsgTimeout ELSE MsgNoRecv,
                        "extract", res)
               /\ UNCHANGED <<lastAnalysisData, inFlightController>>
          ELSE IF Stale(i)
          THEN /\ Drop(i, "extract", "dropped")
               /\ UNCHANGED <<lastAnalysisData, inFlightController>>
          ELSE IF res = "success"
          THEN /\ originalTranscript' = i
               /\ analyzeBtn' = IF hasBtn THEN BtnAnalyzing(analyzeBtn) ELSE analyzeBtn
               /\ inFlightController' = i
               /\ runs' = [runs EXCEPT ![i].pc = "fetch"]
               /\ ev' = Event("extract", i, "fetch", "")
               /\ UNCHANGED <<lastAnalysisData, isAnalyzing, latestRunId,
                              nAccepted, aborted, view, errorEl, dom,
                              rendersSinceReset>>
          ELSE /\ Throw(i, IF res = "failure" THEN MsgScrape ELSE MsgNoScript,
                        "extract", res)
               /\ UNCHANGED <<lastAnalysisData, inFlightController>>
  /\ UNCHANGED <<watchVars, hasBtn, initTimer>>

\* variant: the reply that lost the race is still stored as the transcript
LateReply_Stored(i) ==
  /\ i \in msgPending
  /\ runs[i].pc # "extract"
  /\ msgPending' = msgPending \ {i}
  /\ originalTranscript' = i
  /\ ev' = Event("lateReply", i, "ignored", "")
  /\ UNCHANGED <<lastAnalysisData, isAnalyzing, latestRunId,
                 inFlightController, runs, nAccepted, aborted, uiVars,
                 watchVars, hasBtn, initTimer>>

\* the content script answers after the timeout already settled the race:
\* promise.finally(() => clearTimeout(id)) runs, nothing else, sidepanel.js 77
LateReply(i) ==
  /\ i \in msgPending
  /\ runs[i].pc # "extract"
  /\ msgPending' = msgPending \ {i}
  /\ ev' = Event("lateReply", i, "ignored", "")
  /\ UNCHANGED <<lastAnalysisData, originalTranscript, isAnalyzing, latestRunId,
                 inFlightController, runs, nAccepted, aborted, uiVars,
                 watchVars, hasBtn, initTimer>>

(* ---------------------- sendTranscriptToBackend ----------------------- *)
\* variant: the response is read as a result without testing response.ok
FetchSettle_NoOkCheck(i) ==
  /\ runs[i].pc = "fetch"
  /\ IF i \in aborted
     THEN /\ inFlightController' = Null
          /\ Drop(i, "fetch", "aborted")
          /\ UNCHANGED <<lastAnalysisData, msgPending>>
     ELSE \E res \in {"ok", "notok", "neterr"} :
            IF res = "neterr"
            THEN /\ inFlightController' = Null
                 /\ Throw(i, MsgNetwork, "fetch", res)
                 /\ UNCHANGED <<lastAnalysisData, msgPending>>
            ELSE IF Stale(i)
            THEN /\ inFlightController' = Null
                 /\ Drop(i, "fetch", "dropped")
                 /\ UNCHANGED <<lastAnalysisData, msgPending>>
            ELSE /\ runs' = [runs EXCEPT ![i].pc = "json"]
                 /\ ev' = Event("fetch", i, res, "")
                 /\ UNCHANGED <<lastAnalysisData, originalTranscript, isAnalyzing,
                                latestRunId, inFlightController, nAccepted,
                                msgPending, aborted, uiVars>>
  /\ UNCHANGED <<watchVars, hasBtn, initTimer>>

\* settlement of fetch, sidepanel.js 149-169 and 189-198; a fetch whose
\* controller was aborted rejects with AbortError
FetchSettle(i) ==
  /\ runs[i].pc = "fetch"
  /\ IF i \in aborted
     THEN /\ inFlightController' = Null
          /\ Drop(i, "fetch", "aborted")
          /\ UNCHANGED <<lastAnalysisData, msgPending>>
     ELSE \E res \in {"ok", "notok", "neterr"} :
            IF res = "neterr"
            THEN /\ inFlightController' = Null
                 /\ Throw(i, MsgNetwork, "fetch", res)
                 /\ UNCHANGED <<lastAnalysisData, msgPending>>
            ELSE IF Stale(i)
            THEN /\ inFlightController' = Null
                 /\ Drop(i, "fetch", "dropped")
                 /\ UNCHANGED <<lastAnalysisData, msgPending>>
            ELSE /\ runs' = [runs EXCEPT ![i].pc =
                               IF res = "ok" THEN "json" ELSE "errJson"]
                 /\ ev' = Event("fetch", i, res, "")
                 /\ UNCHANGED <<lastAnalysisData, originalTranscript, isAnalyzing,
                                latestRunId, inFlightController, nAccepted,
                                msgPending, aborted, uiVars>>
  /\ UNCHANGED <<watchVars, hasBtn, initTimer>>

\* settlement of response.json() of a non-OK response, sidepanel.js 165-169:
\* a failed read leaves detail empty
ErrJsonSettle(i) ==
  /\ runs[i].pc = "errJson"
  /\ \E detail \in {"", MsgDetail} :
       /\ inFlightController' = Null
       /\ Throw(i, IF detail = "" THEN MsgBackend ELSE detail, "errJson", "notok")
       /\ UNCHANGED <<lastAnalysisData, msgPending>>
  /\ UNCHANGED <<watchVars, hasBtn, initTimer>>

\* settlement of response.json() of an OK response, sidepanel.js 171-179
JsonSettle(i) ==
  /\ runs[i].pc = "json"
  /\ \/ \* the read rejects: AbortError if the controller was aborted
        /\ inFlightController' = Null
        /\ IF i \in aborted
           THEN Drop(i, "json", "aborted")
           ELSE Throw(i, MsgBadJson, "json", "reject")
        /\ UNCHANGED <<lastAnalysisData, msgPending>>
     \/ \E body \in Payloads :
          /\ lastAnalysisData' = [src |-> i, body |-> body]
          /\ IF Stale(i)
             THEN /\ inFlightController' = Null
                  /\ Drop(i, "json", "dropped")
                  /\ UNCHANGED msgPending
             ELSE /\ runs' = [runs EXCEPT ![i].pc = "raf",
                                          ![i].data = [src |-> i, body |-> body]]
                  /\ ev' = Event("json", i, "requestAnimationFrame", "")
                  /\ UNCHANGED <<originalTranscript, isAnalyzing, latestRunId,
                                 inFlightController, nAccepted, msgPending,
                                 aborted, uiVars>>
  /\ UNCHANGED <<watchVars, hasBtn, initTimer>>

\* the requestAnimationFrame callback of renderFreshResults, sidepanel.js
\* 201-213, and what follows its resolve(): 181-187, 195-198, 130-139.
\* When updateResultsUI throws, resolve() is never called.
RafFire(i) ==
  /\ runs[i].pc = "raf"
  /\ IF Stale(i)
     THEN /\ inFlightController' = Null
          /\ Drop(i, "raf", "dropped")
          /\ UNCHANGED <<lastAnalysisData, msgPending>>
     ELSE LET r == updateResultsUI(dom, runs[i].data.body) IN
          IF r.threw
          THEN /\ dom' = r.dom
               /\ runs' = [runs EXCEPT ![i].pc = "hung"]
               /\ ev' = Event("raf", i, "threw", "")
               /\ UNCHANGED <<lastAnalysisData, originalTranscript, isAnalyzing,
                              latestRunId, inFlightController, nAccepted,
                              msgPending, aborted, view, errorEl, analyzeBtn,
                              rendersSinceReset>>
          ELSE /\ dom' = r.dom
               /\ rendersSinceReset' = rendersSinceReset + 1
               /\ view' = "results-view"
               /\ inFlightController' = Null
               /\ outerFinally(i)
               /\ ev' = Event("raf", i, "rendered", "")
               /\ UNCHANGED <<lastAnalysisData, originalTranscript, latestRunId,
                              nAccepted, msgPending, aborted, errorEl>>
  /\ UNCHANGED <<watchVars, hasBtn, initTimer>>

(* ------------------------------ watcher ------------------------------- *)
\* the user navigates the active tab (or leaves it)
Navigate(u) ==
  /\ u # tabUrl
  /\ tabUrl' = u
  /\ navigated' = TRUE
  /\ UNCHANGED <<orchVars, uiVars, panelEnabled, lastUrl, lastVideoId, watchTimer,
                 strayTimers, polls, hasBtn, initTimer, ev>>

\* a tick of setInterval(monitorYouTubeVideoChange, 1000): the invocation
\* suspends on chrome.tabs.query, sidepanel.js 338-340, 370.  polls counts
\* the suspended invocations; each reads the tab when its query answers.
PollStart ==
  /\ polls < MaxPolls
  /\ polls' = polls + 1
  /\ UNCHANGED <<orchVars, uiVars, tabUrl, navigated, panelEnabled, lastUrl, lastVideoId,
                 watchTimer, strayTimers, hasBtn, initTimer, ev>>

\* variant: a new timer is set without clearing the pending one
ArmTimer_NoClear(wt, stray) ==
  [watchTimer |-> "armed",
   strayTimers |-> IF wt = "armed" THEN stray + 1 ELSE stray]

\* if (watchTimer) clearTimeout(watchTimer); watchTimer = setTimeout(...)
ArmTimer(wt, stray) == [watchTimer |-> "armed", strayTimers |-> stray]

\* variant: the URL is recorded before the watch-page test
PollResume_RecordAll ==
  /\ polls > 0
  /\ polls' = polls - 1
  /\ LET url == tabUrl
         urlChanged == url # lastUrl
         videoChanged == url.vid # NoVid /\ url.vid # lastVideoId
     IN IF url # NoTab /\ (urlChanged \/ videoChanged)
        THEN /\ lastUrl' = url
             /\ lastVideoId' = url.vid
             /\ IF url.watch
                THEN /\ ArmTimer(watchTimer, strayTimers).strayTimers <= MaxStray
                     /\ watchTimer' = ArmTimer(watchTimer, strayTimers).watchTimer
                     /\ strayTimers' = ArmTimer(watchTimer, strayTimers).strayTimers
                ELSE UNCHANGED <<watchTimer, strayTimers>>
        ELSE UNCHANGED <<lastUrl, lastVideoId, watchTimer, strayTimers>>
  /\ UNCHANGED <<orchVars, uiVars, tabUrl, navigated, panelEnabled, hasBtn, initTimer, ev>>

\* resumption of monitorYouTubeVideoChange after tabs.query, 341-364
PollResume ==
  /\ polls > 0
  /\ polls' = polls - 1
  /\ LET url == tabUrl
         urlChanged == url # lastUrl
         videoChanged == url.vid # NoVid /\ url.vid # lastVideoId
     IN IF url # NoTab /\ (urlChanged \/ videoChanged) /\ url.watch
        THEN /\ lastUrl' = url
             /\ lastVideoId' = url.vid
             /\ ArmTimer(watchTimer, strayTimers).strayTimers <= MaxStray
             /\ watchTimer' = ArmTimer(watchTimer, strayTimers).watchTimer
             /\ strayTimers' = ArmTimer(watchTimer, strayTimers).strayTimers
        ELSE UNCHANGED <<lastUrl, lastVideoId, watchTimer, strayTimers>>
  /\ UNCHANGED <<orchVars, uiVars, tabUrl, navigated, panelEnabled, hasBtn, initTimer, ev>>

\* variant: a callback that finds an analysis running sets the timer again
WatchTimerFire_Rearm ==
  /\ \E stray \in BOOLEAN :
       IF stray
       THEN /\ strayTimers > 0
            /\ strayTimers' = strayTimers - 1
            /\ UNCHANGED watchTimer
       ELSE /\ watchTimer = "armed"
            /\ watchTimer' = IF isAnalyzing THEN "armed" ELSE "spent"
            /\ UNCHANGED strayTimers
  /\ IF ~isAnalyzing
     THEN safeStartAnalysis("watcher")
     ELSE /\ ev' = Event("watchTimer", Null, "busy", "watcher")
          /\ UNCHANGED <<orchVars, uiVars>>
  /\ UNCHANGED <<tabUrl, navigated, panelEnabled, lastUrl, lastVideoId, polls, hasBtn,
                 initTimer>>

\* the debounce timer callback, sidepanel.js 356-363
WatchTimerFire ==
  /\ \E stray \in BOOLEAN :
       IF stray
       THEN /\ strayTimers > 0
            /\ strayTimers' = strayTimers - 1
            /\ UNCHANGED watchTimer
       ELSE /\ watchTimer = "armed"
            /\ watchTimer' = "spent"
            /\ UNCHANGED strayTimers
  /\ IF ~isAnalyzing
     THEN safeStartAnalysis("watcher")
     ELSE /\ ev' = Event("watchTimer", Null, "busy", "watcher")
          /\ UNCHANGED <<orchVars, uiVars>>
  /\ UNCHANGED <<tabUrl, navigated, panelEnabled, lastUrl, lastVideoId, polls, hasBtn,
                 initTimer>>

(* ----------------------------- side panel ----------------------------- *)
\* new URL(tab.url).hostname of the URLs above: "other" is a page of
\* another site, the rest are pages of www.youtube.com
Hostname(u) == IF u.id = "other" THEN "example.com" ELSE "www.youtube.com"

\* the chrome.tabs.onUpdated listener, sidepanel.js 376-392: a tab without
\* a URL is left alone
TabUpdated ==
  /\ panelEnabled' = IF tabUrl = NoTab THEN panelEnabled
                     ELSE Hostname(tabUrl) = "www.youtube.com"
  /\ UNCHANGED <<orchVars, uiVars, tabUrl, navigated, lastUrl, lastVideoId,
                 watchTimer, strayTimers, polls, hasBtn, initTimer, ev>>

(* --------------------------- specification ---------------------------- *)
Next ==
  \/ ManualClick
  \/ AutoInit
  \/ \E i \in RunIds : TabQueryDone(i)
  \/ \E i \in RunIds : ExtractSettle(i)
  \/ \E i \in RunIds : LateReply(i)
  \/ \E i \in RunIds : FetchSettle(i)
  \/ \E i \in RunIds : ErrJsonSettle(i)
  \/ \E i \in RunIds : JsonSettle(i)
  \/ \E i \in RunIds : RafFire(i)
  \/ \E u \in Urls \cup {NoTab} : Navigate(u)
  \/ PollStart
  \/ PollResume
  \/ WatchTimerFire

Spec == Init /\ [][Next]_vars

\* the panel page together with the tabs.onUpdated listener, which runs in
\* the extension's background context and shares no variable with the page
PanelNext == Next \/ TabUpdated
PanelSpec == Init /\ [][PanelNext]_vars

\* every external call of an accepted run eventually settles: the tab query,
\* the extractor's reply or the 15000 ms timer, the fetch, the JSON reads and
\* the animation frame
Fairness ==
  \A i \in RunIds :
    /\ WF_vars(TabQueryDone(i))
    /\ WF_vars(ExtractSettle(i))
    /\ WF_vars(FetchSettle(i))
    /\ WF_vars(ErrJsonSettle(i))
    /\ WF_vars(JsonSettle(i))
    /\ WF_vars(RafFire(i))

FairSpec == Spec /\ Fairness

\* the calls that are bounded by the code or by the platform settle: the
\* extractor's reply races the 15000 ms timer of withTimeout (110-114), the
\* body of a received response is read, timers fire and the user keeps
\* clicking; chrome.tabs.query (107), fetch (149-158) and
\* requestAnimationFrame (203) have no timeout and may never settle
HangFairness ==
  /\ \A i \in RunIds :
       /\ WF_vars(ExtractSettle(i))
       /\ WF_vars(ErrJsonSettle(i))
       /\ WF_vars(JsonSettle(i))
  /\ WF_vars(AutoInit)
  /\ WF_vars(WatchTimerFire)
  /\ WF_vars(ManualClick)

HangSpec == Spec /\ HangFairness

(* ====================== properties of the orchestrator ================= *)
\* run i has been accepted and has not yet executed its finally block
InFlight(i) == runs[i].pc \notin {"idle", "done"}
InFlightRuns == {i \in RunIds : InFlight(i)}

\* the step is a call of safeStartAnalysis (from a click or a timer)
TriggerStep == ev'.op = "safeStartAnalysis" /\ ev' # ev
\* the step is a stage continuation of run i
ContinuationOf(i) ==
  /\ ev' # ev
  /\ ev'.run = i
  /\ ev'.op \in {"tabQuery", "extract", "fetch", "errJson", "json", "raf"}

(* C1: single-flight.  In every reachable state at most one invocation of *)
(* safeStartAnalysis is between its acceptance and its finally block, and  *)
(* a call arriving while one is in flight creates no run (it is rejected,  *)
(* nothing is queued).                                                     *)
C1_SingleFlight ==
  /\ [](Cardinality(InFlightRuns) <= 1)
  /\ [][(ev'.op = "safeStartAnalysis" /\ InFlightRuns # {})
          => (nAccepted' = nAccepted /\ runs' = runs)]_vars

\* a trigger was rejected while the second run waited for its scoring fetch
C1_Witness ==
  /\ ev.op = "safeStartAnalysis" /\ ev.info = "ignored"
  /\ \E i \in RunIds : runs[i].pc = "fetch"
  /\ nAccepted = 2

(* C2: busy-reject.  A call of safeStartAnalysis made while isAnalyzing is *)
(* true changes neither latestRunId, isAnalyzing, inFlightController nor   *)
(* the presentation (view, error indicator, button, dom), sends no         *)
(* extraction message and starts no fetch.                                 *)
C2_BusyReject ==
  [][(isAnalyzing /\ ev'.op = "safeStartAnalysis")
       => UNCHANGED <<latestRunId, isAnalyzing, inFlightController, uiVars,
                      msgPending, runs, nAccepted, aborted, lastAnalysisData,
                      originalTranscript>>]_vars

\* a manual click was ignored while a controller is installed
C2_Witness ==
  /\ isAnalyzing
  /\ ev = Event("safeStartAnalysis", Null, "ignored", "manual")
  /\ inFlightController # Null

(* C3: last-epoch-wins.  Whenever the rAF callback runs updateResultsUI or *)
(* showView('results-view') runs on behalf of a run, that run's thisRun    *)
(* equals latestRunId at that moment and no newer run has been accepted:   *)
(* a result of a lower epoch is never rendered.                            *)
C3_LastEpochWins ==
  [][\A i \in RunIds :
       (ContinuationOf(i) /\ ev'.op = "raf" /\ ev'.info # "dropped")
         => (runs[i].thisRun = latestRunId /\ i = nAccepted)]_vars

\* the second accepted run has just rendered its result and shown the results view
C3_Witness ==
  /\ ev = Event("raf", 2, "rendered", "")
  /\ view = "results-view"
  /\ runs[2].thisRun = latestRunId
  /\ rendersSinceReset = 1

(* C4 as stated: when a manual trigger B arrives while the scoring fetch   *)
(* of a manually triggered run A is outstanding, B is accepted as a new    *)
(* run and A's cancellation handle is invoked.                             *)
C4_Supersession ==
  [][\A a \in RunIds :
       (TriggerStep /\ ev'.reason = "manual"
          /\ runs[a].pc = "fetch" /\ runs[a].reason = "manual")
         => (ev'.info = "accepted" /\ a \in aborted')]_vars

(* C4 amended: when a manual trigger B arrives before the scoring fetch of *)
(* a manually triggered run A has resolved, B is rejected without any      *)
(* change of orchestrator or presentation state and A's cancellation       *)
(* handle is not invoked; a run whose render completes has rendered        *)
(* exactly once since the last reset, the results view is shown and        *)
(* isAnalyzing is false when it returns.                                   *)
C4_BusyScenario ==
  /\ [][\A a \in RunIds :
          (TriggerStep /\ ev'.reason = "manual"
             /\ runs[a].pc \in {"tabQuery", "extract", "fetch"}
             /\ runs[a].reason = "manual")
            => (ev'.info = "ignored" /\ a \notin aborted'
                /\ UNCHANGED <<orchVars, uiVars>>)]_vars
  /\ [][\A a \in RunIds :
          (runs[a].pc = "raf" /\ runs'[a].pc = "done")
            => (rendersSinceReset = 0 /\ rendersSinceReset' = 1
                /\ view' = "results-view" /\ ~isAnalyzing')]_vars
  /\ [](rendersSinceReset <= 1)

\* manual trigger B has just been rejected while manual run A waits for
\* its scoring fetch
C4_Witness ==
  /\ ev = Event("safeStartAnalysis", Null, "ignored", "manual")
  /\ \E a \in RunIds : /\ runs[a].pc = "fetch"
                       /\ runs[a].reason = "manual"
                       /\ inFlightController = a

Outcomes == {"rendered", "timeout", "failure", "failureNoError", "undefined",
             "reject", "notab", "neterr", "notok"}

(* C6: flag always released.  The step in which an accepted run executes   *)
(* its finally block, after success, extraction timeout, extraction        *)
(* failure (a missing tab included), network error or a non-OK response,   *)
(* leaves isAnalyzing false.                                               *)
C6_FlagReleased ==
  [][\A i \in RunIds :
       (runs[i].pc # "done" /\ runs'[i].pc = "done")
         => (ev'.run = i /\ ev'.info \in Outcomes /\ ~isAnalyzing')]_vars

\* the second run has just ended on a non-OK service response
C6_Witness ==
  /\ ev = Event("errJson", 2, "notok", "")
  /\ runs[1].pc = "done" /\ runs[2].pc = "done"
  /\ errorEl = showError(MsgBackend)
  /\ ~isAnalyzing

(* C7: isAnalyzing is true exactly in the states in which some accepted    *)
(* run has not yet executed its finally block.                             *)
C7_FlagIffInFlight == isAnalyzing <=> (InFlightRuns # {})

\* the second run is reading the response while the first has finished
C7_Witness ==
  /\ isAnalyzing
  /\ runs[1].pc = "done"
  /\ runs[2].pc = "json"

(* C8: liveness of release.  When every external call eventually settles,  *)
(* every accepted run eventually reaches its finally block and isAnalyzing *)
(* eventually becomes false again.                                         *)
C8_EventuallyReleased == isAnalyzing ~> ~isAnalyzing

(* C9: no stage continuation of a run changes the presentation (error      *)
(* indicator, dom, view, analyze button) while latestRunId is greater than *)
(* the run's thisRun.                                                      *)
C9_NoStaleUiWrite ==
  [][\A i \in RunIds :
       (ContinuationOf(i) /\ uiVars' # uiVars)
         => ~(latestRunId > runs[i].thisRun)]_vars

\* a continuation of the second run has just shown the network error
C9_Witness ==
  /\ ev = Event("fetch", 2, "neterr", "")
  /\ errorEl = showError(MsgNetwork)
  /\ latestRunId = 2

ErrorTexts ==
  [timeout |-> {MsgTimeout}, failure |-> {MsgScrape},
   failureNoError |-> {MsgNoScript}, undefined |-> {MsgNoScript},
   notab |-> {MsgNoTab}, neterr |-> {MsgNetwork},
   notok |-> {MsgBackend, MsgDetail}, reject |-> {MsgQuery, MsgNoRecv, MsgBadJson}]

(* C11: error propagation.  The error indicator is switched on only by a   *)
(* stage continuation ending in an extraction timeout, an extraction       *)
(* failure or a scoring network/service error, with that error's message;  *)
(* a busy-rejected trigger, a run dropped as stale and an aborted fetch    *)
(* leave the indicator as it is, and the aborted path changes neither      *)
(* isAnalyzing nor latestRunId.                                            *)
C11_ErrorPropagation ==
  /\ [][(errorEl' # errorEl /\ errorEl'.shown)
          => (/\ \E i \in RunIds : ContinuationOf(i)
              /\ ev'.info \in DOMAIN ErrorTexts
              /\ errorEl'.text \in ErrorTexts[ev'.info])]_vars
  /\ [][(ev' # ev /\ ev'.info \in {"ignored", "busy", "dropped", "aborted"})
          => errorEl' = errorEl]_vars
  /\ [][(ev' # ev /\ ev'.info = "aborted")
          => (isAnalyzing' = isAnalyzing /\ latestRunId' = latestRunId)]_vars

\* the first run has just ended with the extractor's own failure message
C11_Witness ==
  /\ errorEl = showError(MsgScrape)
  /\ ev = Event("extract", 1, "failure", "")
  /\ ~isAnalyzing

(* C12: timeout scenario.  When the 15000 ms timer wins, the run shows the *)
(* timeout message, issues no scoring fetch and leaves isAnalyzing false;  *)
(* a manual trigger arriving in that state is accepted as a new run.       *)
C12_TimeoutScenario ==
  /\ [][\A i \in RunIds :
          (ContinuationOf(i) /\ ev'.op = "extract" /\ ev'.info = "timeout")
            => (/\ errorEl' = showError(MsgTimeout)
                /\ ~isAnalyzing'
                /\ runs'[i].pc = "done"
                /\ inFlightController' = Null
                /\ i \in msgPending')]_vars
  /\ [][(TriggerStep /\ ev'.reason = "manual" /\ errorEl = showError(MsgTimeout))
          => (ev'.info = "accepted" /\ runs'[ev'.run].pc = "tabQuery"
              /\ isAnalyzing' /\ errorEl' = hideError)]_vars

\* the first run timed out (its message is still unanswered) and the
\* manually triggered second run has passed extraction and scoring and
\* waits for the frame in which it renders
C12_Witness ==
  /\ runs[1].pc = "done" /\ 1 \in msgPending
  /\ runs[2].pc = "raf" /\ runs[2].reason = "manual"
  /\ inFlightController = 2
  /\ ~errorEl.shown

\* the controllers created by a run that is still inside
\* sendTranscriptToBackend and on which abort() has not been called
LiveHandles ==
  {i \in RunIds : /\ runs[i].pc \in {"fetch", "errJson", "json", "raf", "hung"}
                  /\ i \notin aborted}

(* C13 as stated: at every instant exactly one cancellation handle is      *)
(* live, i.e. inFlightController refers to a controller.                   *)
C13_ExactlyOneHandle == inFlightController # Null /\ Cardinality(LiveHandles) = 1

(* C13 amended: at every instant at most one cancellation handle is live:  *)
(* inFlightController is null at load, during extraction and between runs, *)
(* and otherwise refers to the only controller that is in use and not      *)
(* aborted; accepting a run leaves inFlightController null, after aborting *)
(* the controller it referred to if there was one.                         *)
C13_AtMostOneHandle ==
  /\ [](LiveHandles = IF inFlightController = Null THEN {} ELSE {inFlightController})
  /\ [][(TriggerStep /\ ev'.info = "accepted")
          => (/\ inFlightController' = Null
              /\ inFlightController # Null => inFlightController \in aborted')]_vars

\* no handle while the second run extracts, after the first run had one
C13_Witness ==
  /\ inFlightController = Null
  /\ runs[2].pc = "extract"
  /\ originalTranscript = 1
  /\ LiveHandles = {}

\* the fetch of run i, including the read of its body, has not finished
Outstanding(i) == runs[i].pc \in {"fetch", "errJson", "json"}

(* C14 as stated: inFlightController is null whenever no scoring fetch is  *)
(* outstanding.                                                            *)
C14_NullUnlessOutstanding ==
  inFlightController # Null => Outstanding(inFlightController)

(* C14 amended: at every instant at most one scoring fetch is outstanding  *)
(* and not aborted, and inFlightController refers to its controller; the   *)
(* reference is kept after the response has been read, while the run waits *)
(* for its animation frame (for ever if the render throws), and is null    *)
(* otherwise; it is discarded only by the finally block of the run that    *)
(* created it or after abort() was called on it.                           *)
C14_OneFetch ==
  /\ [](Cardinality({i \in RunIds : runs[i].pc = "fetch" /\ i \notin aborted}) <= 1)
  /\ [](\A i \in RunIds :
          (Outstanding(i) /\ i \notin aborted) => inFlightController = i)
  /\ [](inFlightController # Null
          => runs[inFlightController].pc \in {"fetch", "errJson", "json", "raf", "hung"})
  /\ [][(inFlightController # Null /\ inFlightController' # inFlightController)
          => (/\ inFlightController' = Null
              /\ \/ ContinuationOf(inFlightController)
                 \/ inFlightController \in aborted')]_vars

\* the response has been read and the controller is still referenced
\* while the run waits for its animation frame
C14_Witness ==
  /\ runs[1].pc = "raf"
  /\ inFlightController = 1
  /\ lastAnalysisData.src = 1

(* C15: latestRunId never decreases; a trigger that is accepted increases  *)
(* it by exactly 1, a trigger that is rejected leaves it unchanged,        *)
(* nothing else changes it, and no two accepted runs hold the same         *)
(* thisRun.                                                                *)
C15_EpochMonotone ==
  /\ [][latestRunId' >= latestRunId]_vars
  /\ [][TriggerStep
          => IF ev'.info = "accepted"
             THEN latestRunId' = latestRunId + 1
             ELSE latestRunId' = latestRunId]_vars
  /\ [][latestRunId' # latestRunId
          => (TriggerStep /\ ev'.info = "accepted")]_vars
  /\ [](\A i, j \in RunIds :
          (i # j /\ runs[i].pc # "idle" /\ runs[j].pc # "idle")
            => runs[i].thisRun # runs[j].thisRun)

\* two runs were accepted and a third trigger was rejected
C15_Witness ==
  /\ latestRunId = 2
  /\ runs[1].thisRun = 1
  /\ runs[2].thisRun = 2
  /\ ev.op = "safeStartAnalysis"
  /\ ev.info = "ignored"

\* the rAF callback of run i calls updateResultsUI
RenderStep(i) ==
  /\ ContinuationOf(i)
  /\ ev'.op = "raf"
  /\ ev'.info \in {"rendered", "threw"}

(* C16: updateResultsUI is invoked at most once after a presentation       *)
(* reset: when it is invoked, no render has happened and no render has     *)
(* thrown since the last showInitialView; the invoking run is the latest   *)
(* accepted run and holds the latest epoch, and the payload rendered is    *)
(* the response that run read, which is lastAnalysisData.                  *)
C16_NoDoubleRender ==
  /\ [](rendersSinceReset <= 1)
  /\ [][\A i \in RunIds :
          RenderStep(i)
            => (/\ rendersSinceReset = 0
                /\ \A j \in RunIds : runs[j].pc # "hung"
                /\ i = nAccepted
                /\ runs[i].thisRun = latestRunId
                /\ lastAnalysisData.src = i
                /\ runs[i].data = lastAnalysisData
                /\ dom' = updateResultsUI(dom, lastAnalysisData.body).dom)]_vars

\* the second run rendered the response it read, once, after the first
\* run had ended
C16_Witness ==
  /\ ev = Event("raf", 2, "rendered", "")
  /\ rendersSinceReset = 1
  /\ runs[1].pc = "done"
  /\ lastAnalysisData.src = 2
  /\ ~isAnalyzing

\* the positions a run may move to from each position
NextPcs ==
  [idle     |-> {"tabQuery"},
   tabQuery |-> {"extract", "done"},
   extract  |-> {"fetch", "done"},
   fetch    |-> {"json", "errJson", "done"},
   errJson  |-> {"done"},
   json     |-> {"raf", "done"},
   raf      |-> {"done", "hung"},
   hung     |-> {},
   done     |-> {}]

(* C17: a run passes through its stages only in the order tab query,       *)
(* extraction, scoring fetch, read of the body, render, release, never     *)
(* returning to a stage; the fetch is issued only by the continuation that *)
(* received a successful extraction; the body of a response is read as a   *)
(* result only after the fetch answered OK, and updateResultsUI runs only  *)
(* for a run waiting for its frame whose response is lastAnalysisData;     *)
(* after an extraction that failed, was rejected or timed out the run ends *)
(* and no controller is created.                                           *)
C17_StageOrdering ==
  /\ [][\A i \in RunIds :
          runs'[i].pc # runs[i].pc => runs'[i].pc \in NextPcs[runs[i].pc]]_vars
  /\ [][\A i \in RunIds :
          (runs'[i].pc = "fetch" /\ runs[i].pc # "fetch")
            => (ev' = Event("extract", i, "fetch", "") /\ originalTranscript' = i)]_vars
  /\ [][\A i \in RunIds :
          (runs'[i].pc = "json" /\ runs[i].pc # "json")
            => ev' = Event("fetch", i, "ok", "")]_vars
  /\ [][\A i \in RunIds :
          RenderStep(i) => (runs[i].pc = "raf" /\ lastAnalysisData.src = i)]_vars
  /\ [][\A i \in RunIds :
          (ContinuationOf(i) /\ ev'.op = "extract" /\ ev'.info # "fetch")
            => (/\ runs'[i].pc = "done"
                /\ inFlightController = Null
                /\ inFlightController' = Null)]_vars

\* a run went through every stage and was released after its render
C17_Witness ==
  /\ ev = Event("raf", 1, "rendered", "")
  /\ runs[1].pc = "done"
  /\ originalTranscript = 1
  /\ lastAnalysisData.src = 1
  /\ inFlightController = Null
  /\ ~isAnalyzing

(* C18: the step that accepts a trigger increments latestRunId by exactly  *)
(* 1, sets isAnalyzing, captures the new epoch and resets the presentation *)
(* to the loading view with the error hidden, all in that one step; in     *)
(* every state in which the accepted run is suspended at its first await   *)
(* all of these updates are in place.                                      *)
C18_AtomicAcceptance ==
  /\ [][(TriggerStep /\ ev'.info = "accepted")
          => (/\ ~isAnalyzing
              /\ isAnalyzing'
              /\ latestRunId' = latestRunId + 1
              /\ runs'[ev'.run].pc = "tabQuery"
              /\ runs'[ev'.run].thisRun = latestRunId'
              /\ view' = "initial-view"
              /\ errorEl' = hideError
              /\ dom' = InitialDom(dom)
              /\ rendersSinceReset' = 0)]_vars
  /\ [](\A i \in RunIds :
          runs[i].pc = "tabQuery"
            => (/\ isAnalyzing
                /\ runs[i].thisRun = latestRunId
                /\ i = nAccepted
                /\ view = "initial-view"
                /\ errorEl = hideError
                /\ dom = InitialDom(dom)
                /\ rendersSinceReset = 0))

\* the watcher's trigger was accepted after a first run ended with an
\* error: the run waits at its first await with the state fully updated
C18_Witness ==
  /\ ev = Event("safeStartAnalysis", 2, "accepted", "watcher")
  /\ runs[2].pc = "tabQuery"
  /\ runs[1].pc = "done"
  /\ latestRunId = 2
  /\ isAnalyzing
  /\ view = "initial-view"
  /\ errorEl = hideError

\* the debounce timer callback runs while an analysis is running
BusyTimerFire ==
  /\ isAnalyzing
  /\ \/ ev'.op = "watchTimer" /\ ev' # ev
     \/ watchTimer = "armed" /\ watchTimer' = "spent"

C20_RetryScheduled ==
  [][BusyTimerFire
       => (watchTimer' = "armed" \/ strayTimers' > 0 \/ initTimer')]_vars

\* a poll detects a change of the viewed URL or video
DetectStep == lastUrl' # lastUrl \/ lastVideoId' # lastVideoId

(* C21: every detected change records the URL and the video id of the tab  *)
(* and leaves exactly one debounce timer pending, the one it set: a timer  *)
(* that was pending before is cancelled, so no cancelled timer ever fires; *)
(* safeStartAnalysis('watcher') is called only by the firing of the timer  *)
(* set by the last detected change, and that firing uses the timer up, so  *)
(* the changes detected while a timer is pending yield one trigger.        *)
C21_Debounce ==
  /\ [](strayTimers = 0)
  /\ [][DetectStep
          => (/\ lastUrl' = tabUrl
              /\ lastVideoId' = tabUrl.vid
              /\ watchTimer' = "armed"
              /\ strayTimers' = 0
              /\ ev' = ev)]_vars
  /\ [][(TriggerStep /\ ev'.reason = "watcher")
          => (/\ watchTimer = "armed"
              /\ watchTimer' = "spent"
              /\ strayTimers' = 0
              /\ UNCHANGED <<lastUrl, lastVideoId>>)]_vars
  /\ [][(watchTimer = "armed" /\ watchTimer' # "armed")
          => (/\ watchTimer' = "spent"
              /\ ev'.op \in {"safeStartAnalysis", "watchTimer"}
              /\ ev'.reason = "watcher")]_vars

\* a burst in progress: the timer set for one URL is pending, the tab has
\* already moved to another video and a poll is about to detect it
C21_Witness ==
  /\ watchTimer = "armed"
  /\ strayTimers = 0
  /\ lastUrl.id = "watch_a"
  /\ tabUrl.id = "watch_b"
  /\ polls = 1

(* C22 as stated: the watcher starts a run only after the URL of the tab   *)
(* has changed: once the auto-init timer has fired, no trigger with reason *)
(* 'watcher' is accepted while the URL is still the one the panel was      *)
(* loaded on.                                                              *)
C22_NoRedundantRun ==
  [][(TriggerStep /\ ev'.reason = "watcher" /\ ev'.info = "accepted" /\ ~initTimer)
       => navigated]_vars

(* C23 as stated: the success render is idempotent: for every presentation *)
(* state and every response that renders without throwing, applying       *)
(* updateResultsUI a second time with the same data leaves the dom,        *)
(* dimension list included, as the first application left it.              *)
C23_RenderIdempotent ==
  \A body \in Payloads :
    LET once == updateResultsUI(dom, body) IN
      ~once.threw => updateResultsUI(once.dom, body).dom = once.dom

\* the continuation of run i receives a response of the content script
ReplyStep(i) ==
  /\ ContinuationOf(i)
  /\ ev'.op = "extract"
  /\ ev'.info \in {"fetch", "failure", "failureNoError"}

(* C24 as stated: every response the content script sends to a             *)
(* SCRAPE_TRANSCRIPT message is either a success or a failure that carries *)
(* an error message.                                                       *)
C24_ExtractorInterface ==
  [][\A i \in RunIds :
       ReplyStep(i)
         => LET r == ScrapeResponse[IF ev'.info = "fetch" THEN "success"
                                    ELSE ev'.info]
            IN r.success \/ r.error # ""]_vars

(* C25 as stated: whenever the tabs.onUpdated listener changes the state   *)
(* of the side panel, the panel ends up enabled if and only if the URL of  *)
(* the tab is a YouTube video page.                                        *)
C25_PanelOnlyOnVideoPages ==
  [][panelEnabled' # panelEnabled
       => (panelEnabled' <=> tabUrl.watch)]_vars

(* C26: in every reachable state every run in flight holds thisRun equal   *)
(* to latestRunId; no continuation ever takes the 'dropped' branch of a    *)
(* staleness check, and every run that ends leaves isAnalyzing false.      *)
C26_NeverStale ==
  /\ [](\A i \in RunIds : InFlight(i) => runs[i].thisRun = latestRunId)
  /\ [][ev' # ev => ev'.info # "dropped"]_vars
  /\ [][\A i \in RunIds :
          (runs[i].pc # "done" /\ runs'[i].pc = "done") => ~isAnalyzing']_vars

\* the second run is past every staleness check but the last ones, after
\* the first run ended
C26_Witness ==
  /\ runs[1].pc = "done"
  /\ runs[1].thisRun = 1
  /\ runs[2].pc = "raf"
  /\ runs[2].thisRun = 2
  /\ latestRunId = 2

(* C27: whenever isAnalyzing is false, inFlightController is null; a       *)
(* trigger is accepted only with inFlightController null, so the abort     *)
(* branch of safeStartAnalysis is never taken, and abort() is never called *)
(* on any controller.                                                      *)
C27_NoAbortEver ==
  /\ [](~isAnalyzing => inFlightController = Null)
  /\ [](aborted = {})
  /\ [][(TriggerStep /\ ev'.info = "accepted")
          => (inFlightController = Null /\ aborted' = aborted)]_vars
  /\ [][ev' # ev => ev'.info # "aborted"]_vars

\* a run that had created its controller ended, and the next trigger was
\* accepted with the controller null
C27_Witness ==
  /\ runs[1].pc = "done"
  /\ originalTranscript = 1
  /\ ev = Event("safeStartAnalysis", 2, "accepted", "manual")
  /\ errorEl = hideError
  /\ inFlightController = Null
  /\ aborted = {}

(* C28 as stated: a run that waits for the tab query, for the scoring      *)
(* fetch or for its animation frame does not keep the orchestrator busy    *)
(* for ever, even if that call never settles: isAnalyzing eventually       *)
(* becomes false, which is also what accepting a later trigger requires.   *)
C28_NoPermanentBusy ==
  \A i \in RunIds :
    (runs[i].pc \in {"tabQuery", "fetch", "raf"}) ~> ~isAnalyzing

(* C29 as stated: a run whose call of updateResultsUI threw inside the     *)
(* animation-frame callback still settles: the error is shown and          *)
(* isAnalyzing is released.                                                *)
C29_RenderThrowSettles ==
  \A i \in RunIds :
    (runs[i].pc = "hung") ~> (errorEl.shown /\ ~isAnalyzing /\ runs[i].pc = "done")

(* C30: whenever the results view is displayed, originalTranscript and     *)
(* lastAnalysisData were written by the same run, the most recently        *)
(* accepted one, and no run is in flight that could overwrite either of    *)
(* them while the view is displayed.                                       *)
C30_FeedbackPairs ==
  [](view = "results-view"
       => (/\ originalTranscript # Null
           /\ originalTranscript = lastAnalysisData.src
           /\ originalTranscript = nAccepted
           /\ InFlightRuns = {}))

\* the results of the second run are displayed; both values are its own
C30_Witness ==
  /\ view = "results-view"
  /\ nAccepted = 2
  /\ originalTranscript = 2
  /\ lastAnalysisData.src = 2
  /\ ~lastAnalysisData.body.isNull

(* C31: the error indicator and the results view are never both visible:   *)
(* every step that shows the error happens in the loading view and leaves  *)
(* it displayed, the step that shows the results view leaves the error     *)
(* hidden, and every accepted trigger hides the error and switches to the  *)
(* loading view in the step that accepts it.                               *)
C31_ErrorXorResults ==
  /\ [](~(errorEl.shown /\ view = "results-view"))
  /\ [][(errorEl' # errorEl /\ errorEl'.shown)
          => (view = "initial-view" /\ view' = "initial-view")]_vars
  /\ [][(view' # view /\ view' = "results-view")
          => (~errorEl.shown /\ ~errorEl'.shown)]_vars
  /\ [][(TriggerStep /\ ev'.info = "accepted")
          => (errorEl' = hideError /\ view' = "initial-view")]_vars

\* the first run displayed its results, the second run replaced them by
\* the loading view and ended with an error
C31_Witness ==
  /\ errorEl.shown
  /\ view = "initial-view"
  /\ nAccepted = 2
  /\ runs[1].pc = "done"
  /\ runs[2].pc = "done"
  /\ lastAnalysisData.src = 1
  /\ ~isAnalyzing

(* C32: when the analyze button exists, in every state between two steps   *)
(* it is disabled exactly when isAnalyzing is true: the accepting step     *)
(* disables it and sets the flag, and the step that releases the flag      *)
(* enables it.                                                             *)
C32_ButtonTracksFlag ==
  /\ [](hasBtn => (analyzeBtn.disabled <=> isAnalyzing))
  /\ [][(hasBtn /\ isAnalyzing' # isAnalyzing)
          => analyzeBtn' = IF isAnalyzing' THEN BtnImporting ELSE BtnReady]_vars

\* the second run is fetching with the button disabled, after the first
\* run had enabled it again
C32_Witness ==
  /\ hasBtn
  /\ runs[1].pc = "done"
  /\ runs[2].pc = "fetch"
  /\ isAnalyzing
  /\ analyzeBtn = [disabled |-> TRUE, text |-> "Analyzing..."]

\* the debounce timers that have been set and have neither fired nor been
\* cleared
PendingTimers == (IF watchTimer = "armed" THEN 1 ELSE 0) + strayTimers

(* C33: at most one debounce timer is pending in every state, also while   *)
(* several invocations of monitorYouTubeVideoChange are suspended on       *)
(* chrome.tabs.query; a resumed invocation that sets a timer leaves        *)
(* exactly one pending, and the firing of a timer removes it and accepts   *)
(* at most one run.                                                        *)
C33_OneTimer ==
  /\ [](PendingTimers <= 1)
  /\ [][polls' < polls => PendingTimers' \in {PendingTimers, 1}]_vars
  /\ [][PendingTimers' < PendingTimers
          => (/\ PendingTimers' = PendingTimers - 1
              /\ nAccepted' \in {nAccepted, nAccepted + 1}
              /\ latestRunId' \in {latestRunId, latestRunId + 1})]_vars
  /\ [][(TriggerStep /\ ev'.reason = "watcher")
          => PendingTimers' = PendingTimers - 1]_vars

\* a timer is pending for one video while two invocations are suspended
\* on chrome.tabs.query and the tab shows another video
C33_Witness ==
  /\ polls = 2
  /\ PendingTimers = 1
  /\ lastVideoId = "a"
  /\ tabUrl.vid = "b"

\* a reply of the content script arrives for run i after the race of
\* withTimeout was settled by the timer
LateReplyStep(i) ==
  /\ i \in msgPending
  /\ i \notin msgPending'
  /\ runs[i].pc # "extract"

(* C34: the race of withTimeout settles once: the continuation that        *)
(* receives its outcome leaves the extraction stage, with the timeout      *)
(* error and the message still unanswered when the timer won, with the     *)
(* reply consumed otherwise; a reply that arrives after the timer won      *)
(* changes no orchestrator or presentation variable: no fetch, no render,  *)
(* no error, no change of isAnalyzing or latestRunId, also while a later   *)
(* run is in flight.                                                       *)
C34_TimeoutRace ==
  /\ [][\A i \in RunIds :
          (ContinuationOf(i) /\ ev'.op = "extract")
            => (/\ runs[i].pc = "extract"
                /\ runs'[i].pc \in {"fetch", "done"}
                /\ IF ev'.info = "timeout"
                   THEN /\ i \in msgPending'
                        /\ errorEl' = showError(MsgTimeout)
                        /\ runs'[i].pc = "done"
                   ELSE i \notin msgPending')]_vars
  /\ [][\A i \in RunIds :
          LateReplyStep(i)
            => (/\ ev' = Event("lateReply", i, "ignored", "")
                /\ UNCHANGED <<lastAnalysisData, originalTranscript, isAnalyzing,
                               latestRunId, inFlightController, runs, nAccepted,
                               aborted, uiVars>>)]_vars

\* the reply to the first run, which had timed out, arrived while the
\* second run was waiting for its scoring fetch
C34_Witness ==
  /\ ev = Event("lateReply", 1, "ignored", "")
  /\ 1 \notin msgPending
  /\ runs[1].pc = "done"
  /\ runs[2].pc = "fetch"
  /\ originalTranscript = 2
  /\ isAnalyzing
  /\ errorEl = hideError

(* C35: in every state lastUrl is null or a URL matching the watch         *)
(* pattern, and lastVideoId is the video id of lastUrl (null if it has     *)
(* none); hence a URL whose video id differs from lastVideoId differs from *)
(* lastUrl, and a poll that resumes on the URL equal to lastUrl leaves     *)
(* lastUrl, lastVideoId and the debounce timer unchanged.                  *)
C35_WatcherRecord ==
  /\ [](lastUrl = NoUrl \/ lastUrl.watch)
  /\ [](lastVideoId = lastUrl.vid)
  /\ [](\A u \in Urls :
          (u.vid # NoVid /\ u.vid # lastVideoId) => u # lastUrl)
  /\ [][(polls' < polls /\ tabUrl = lastUrl)
          => UNCHANGED <<lastUrl, lastVideoId, watchTimer, strayTimers>>]_vars

\* the watcher has recorded a watch URL whose video it had seen under
\* another URL; its timer has fired and a poll on the same URL is suspended
C35_Witness ==
  /\ lastUrl.id = "watch_a_t"
  /\ lastVideoId = "a"
  /\ tabUrl = lastUrl
  /\ watchTimer = "spent"
  /\ polls = 1

=============================================================================
